---- MODULE Spec2Model ----
(***************************************************************************)
(* Model of SPY-Options-Chain/backend: IBKRClient (ibkr_client.py), the    *)
(* background refresh loop that maintains the cached options snapshot, the *)
(* readers of that snapshot (get_options_data), OrderManager               *)
(* (order_manager.py), which places single, combo and bracket orders, and  *)
(* the Socket.IO emitter of server.py.                                     *)
(*                                                                         *)
(* Threads: the request handlers (connect, disconnect, get_options_data,   *)
(* the order operations) and the IBKRUpdateThread, which runs the asyncio  *)
(* coroutine _update_loop_async_tasks.  A step of the update thread runs   *)
(* from one await to the next.                                             *)
(***************************************************************************)
EXTENDS Integers, Sequences, FiniteSets, TLC

(***************************************************************************)
(* Bounds of the model.                                                    *)
(***************************************************************************)
\* refresh cycles the update loop may start
MaxCycles == 2
\* entries of a chain.strikes list handed to the strike selection
MaxStrikes == 4
\* Socket.IO clients connected at a time
MaxSubscribers == 1
\* update threads left behind by later ones
MaxOrphans == 1
\* emitter tasks in their loop at a time
MaxTasks == 2
\* order requests the handlers may take
MaxRequests == 1
\* legs of a multi-leg request
MaxLegs == 3

(***************************************************************************)
(* Values the gateway can deliver.                                         *)
(***************************************************************************)
\* a float field of a Ticker: a number or NaN
Num(n) == [kind |-> "num", val |-> n]
NaN == [kind |-> "nan", val |-> 0]
\* a field the Ticker does not have (hasattr is false)
Missing == [kind |-> "missing", val |-> 0]
\* the string 'N/A' stored for an unavailable bid or ask
NA == [kind |-> "N/A", val |-> 0]

\* (marketPrice(), last, close) of the SPY ticker after the snapshot wait
PriceTickers ==
    { [mp |-> Num(100), last |-> Num(100), close |-> Num(99)],
      [mp |-> Num(101), last |-> NaN, close |-> Num(99)],
      [mp |-> NaN, last |-> Num(101), close |-> Num(99)],
      [mp |-> NaN, last |-> NaN, close |-> Num(101)],
      [mp |-> Num(0), last |-> NaN, close |-> Num(101)],
      [mp |-> Num(-1), last |-> Num(-1), close |-> NaN],
      [mp |-> Num(0), last |-> Num(0), close |-> Num(0)] }

\* (bid, ask) of an option ticker when the chain is built
QuoteTickers ==
    { [bid |-> Num(0), ask |-> Num(6)],
      [bid |-> Num(-1), ask |-> NaN] }

\* chain.strikes as reqSecDefOptParamsAsync may return it
ChainStrikeSets == { {}, {100} }
Rights == <<"C", "P">>

(***************************************************************************)
(* Pure helpers of _update_options_chain_async.                            *)
(***************************************************************************)
Min(a, b) == IF a < b THEN a ELSE b
Max(a, b) == IF a > b THEN a ELSE b
Abs(x) == IF x < 0 THEN -x ELSE x

RECURSIVE SortedSeq(_)
\* sorted(list(set(chain.strikes)))
SortedSeq(S) ==
    IF S = {} THEN <<>>
    ELSE LET m == CHOOSE x \in S : \A y \in S : x <= y
         IN <<m>> \o SortedSeq(S \ {m})

\* all_strikes.index(min(all_strikes, key=lambda x: abs(x - spy_price))):
\* min() keeps the first minimal element, so the lower strike wins a tie
AtmIndex(all_strikes, price) ==
    CHOOSE i \in 1..Len(all_strikes) :
        /\ \A j \in 1..Len(all_strikes) :
               Abs(all_strikes[i] - price) <= Abs(all_strikes[j] - price)
        /\ \A j \in 1..(i - 1) :
               Abs(all_strikes[j] - price) > Abs(all_strikes[i] - price)

\* number of strikes above and below ATM
strikes_around_atm_count == 10

\* SelectedStrikes with end_index = min(len(all_strikes), atm_index + n),
\* the slice ending one strike early
SelectedStrikes_shortEnd(all_strikes, price, n) ==
    LET atm_index == AtmIndex(all_strikes, price)
        start_index == Max(1, atm_index - n)
        end_index == Min(Len(all_strikes), atm_index + n - 1)
    IN SubSeq(all_strikes, start_index, end_index)

\* all_strikes[start_index:end_index], indices 1-based here
SelectedStrikes(all_strikes, price, n) ==
    LET atm_index == AtmIndex(all_strikes, price)
        start_index == Max(1, atm_index - n)
        end_index == Min(Len(all_strikes), atm_index + n)
    IN SubSeq(all_strikes, start_index, end_index)

RECURSIVE OptionContracts(_)
\* one Option contract per selected strike and right, in list order
OptionContracts(strikes) ==
    IF strikes = <<>> THEN <<>>
    ELSE <<<<Head(strikes), Rights[1]>>, <<Head(strikes), Rights[2]>>>>
             \o OptionContracts(Tail(strikes))

RECURSIVE FilterSeq(_, _)
FilterSeq(s, keep) ==
    IF s = <<>> THEN <<>>
    ELSE (IF Head(s) \in keep THEN <<Head(s)>> ELSE <<>>) \o FilterSeq(Tail(s), keep)

SeqRange(s) == { s[i] : i \in 1..Len(s) }

\* Normalise testing the value for truth ("ticker.bid if ticker.bid and ..."),
\* which drops 0.0 as well
Normalise_falsy(v) ==
    IF v.kind = "num" /\ v.val # -1 /\ v.val # 0 THEN v ELSE NA

\* bid_val / ask_val: the value itself, or 'N/A' when the attribute is
\* missing, NaN or -1
Normalise(v) ==
    IF v.kind = "num" /\ v.val # -1 THEN v ELSE NA

\* ticker.marketPrice() is truthy: any float but 0.0, NaN included
Truthy(v) == ~(v.kind = "num" /\ v.val = 0)
Positive(v) == v.kind = "num" /\ v.val > 0

\* new_price of _update_spy_price_async
NewPrice(t) ==
    IF Truthy(t.mp) THEN t.mp
    ELSE IF Positive(t.last) THEN t.last
    ELSE IF Positive(t.close) THEN t.close
    ELSE Num(0)

EmptyMap == <<>>

\* the reference that names no dict (None)
NoRef == MaxCycles + 1

(***************************************************************************)
(* State.                                                                  *)
(***************************************************************************)
VARIABLES
    \* IBKRClient fields
    ib,               \* "None" or "IB": the gateway handle self.ib
    gwConnected,      \* what self.ib.isConnected() answers
    connected,        \* self.connected
    running,          \* self.running
    loop,             \* self.loop: "None", "open" or "closed"
    loopStop,         \* loop.stop has been requested on the open loop
    alive,            \* self.update_thread.is_alive()
    spy_price,        \* self.spy_price
    options_data,     \* self.options_data: a reference to a dict on the heap
    lock,             \* options_data_lock: "free", "update" or a reader
    heap,             \* the dicts: reference -> map from key to quote
    \* the update thread
    pc,               \* where the update coroutine stands
    cycle,            \* number of the refresh cycle in progress
    option_contracts, \* contracts handed to qualifyContractsAsync
    qualified_options,
    tickers_data,     \* contracts for which reqMktData was issued
    new_options_data, \* reference to the dict being built
    \* request handlers
    dpc,              \* disconnect(): "idle" or "join"
    rpc,              \* get_options_data per reader: "idle", "acquire", "locked"
    rcopy,            \* options_to_return per reader: reference to the copy
    \* history
    priceCycle,       \* cycle in which spy_price was last written
    pubs,             \* number of assignments to self.options_data so far
    ret,              \* the payload get_options_data returned last, if any
    \* OrderManager and the gateway's view of its orders
    orders,           \* self.orders: order id -> record
    nextOrderId,      \* the next order id the gateway client hands out
    gwOrders,         \* the orders placeOrder has sent, in order
    gwCancels,        \* the order ids cancelOrder was called for
    \* place_multi_leg_order in progress
    mpc,              \* where the handler stands
    legs,             \* its argument
    mreq,             \* history: the number of the request it serves
    leg_i,            \* the leg being worked on
    combo_legs,       \* the combo legs built so far, each named by its leg
    parent_id,
    child_ids,
    \* history
    requests,         \* number of order requests taken so far
    mres,             \* the result place_multi_leg_order has just returned
    ores,             \* the result place_single_order, cancel_order or
                      \* get_order_status has just returned
    \* the gateway's market data lines
    mktData,          \* contracts with a reqMktData not yet followed by
                      \* cancelMktData, on the connection that is up
    \* server.py
    socket_emitter_thread_running,
    emitter_tasks,    \* options_data_emitter_task instances still in their loop
    subscribers,      \* Socket.IO clients connected
    emits,            \* history: parity of the number of options_update events
    \* inputs and results of the functions checked on their own
    strike_input,     \* chain.strikes, the price and the count N
    selected_strikes, \* selected_strikes for strike_input, once computed
    ticker_input,     \* the contract key and the bid and ask of one ticker
    quote,            \* the entry built for ticker_input, once built
    \* connect() called by request handlers that run side by side
    cpc,              \* where each such call stands
    orphans           \* update threads alive that self.update_thread no
                      \* longer names

clientVars == <<ib, gwConnected, connected, running, loop, loopStop, alive>>
storeVars == <<spy_price, options_data, lock, priceCycle, pubs>>
cycleVars == <<pc, cycle, option_contracts, qualified_options, tickers_data,
               new_options_data>>
readVars == <<dpc, rpc, rcopy, ret>>
orderVars == <<orders, nextOrderId, gwOrders, gwCancels>>
multiVars == <<mpc, legs, mreq, leg_i, combo_legs, parent_id, child_ids,
               requests, mres>>
serverVars == <<socket_emitter_thread_running, emitter_tasks, subscribers, emits>>
pureVars == <<strike_input, selected_strikes, ticker_input, quote>>
connectVars == <<cpc, orphans>>
vars == <<clientVars, storeVars, heap, cycleVars, readVars, orderVars, multiVars,
          ores, mktData, serverVars, pureVars, connectVars>>

\* the handlers of /api/connect that may run at the same time
Callers == {"c1", "c2"}

\* the thread that calls get_options_data (a /api/options handler)
Readers == {"http"}

\* not self.ib or not self.ib.isConnected()
NotConnected == ib = "None" \/ ~gwConnected

\* the state after the modules are loaded: IBKRClient.__init__,
\* OrderManager.__init__ and the globals of server.py
InitProgram ==
    /\ ib = "None" /\ gwConnected = FALSE /\ connected = FALSE
    /\ running = FALSE /\ loop = "None" /\ loopStop = FALSE /\ alive = FALSE
    /\ spy_price = 0 /\ options_data = 0 /\ lock = "free"
    /\ heap = (0 :> EmptyMap)
    /\ pc = "done" /\ cycle = 0
    /\ option_contracts = <<>> /\ qualified_options = <<>>
    /\ tickers_data = <<>> /\ new_options_data = NoRef
    /\ dpc = "idle"
    /\ rpc = [r \in Readers |-> "idle"]
    /\ rcopy = [r \in Readers |-> NoRef]
    /\ priceCycle = 0 /\ pubs = 0 /\ ret = <<>>
    /\ orders = <<>> /\ nextOrderId = 1 /\ gwOrders = <<>> /\ gwCancels = {}
    /\ mpc = "idle" /\ legs = <<>> /\ mreq = 0 /\ leg_i = 0 /\ parent_id = 0
    /\ combo_legs = <<>> /\ child_ids = <<>> /\ requests = 0 /\ mres = <<>>
    /\ ores = <<>>
    /\ mktData = {}
    /\ socket_emitter_thread_running = FALSE /\ emitter_tasks = 0
    /\ subscribers = 0 /\ emits = 0
    /\ cpc = [h \in Callers |-> "idle"] /\ orphans = 0

\* no function is being checked on its own
NoInput == <<>>

Init ==
    /\ InitProgram
    /\ strike_input = NoInput /\ selected_strikes = <<>>
    /\ ticker_input = NoInput /\ quote = <<>>

(***************************************************************************)
(* IBKRClient.connect and IBKRClient.disconnect.                           *)
(***************************************************************************)
\* connect(): returns at once when self.connected (no state changes);
\* otherwise opens a loop if there is none, connects a new IB and, on success,
\* starts the update thread unless one is alive.  ok = FALSE: the attempt
\* fails or raises.
connect ==
    /\ ~connected
    /\ \E ok \in BOOLEAN :
        /\ loop' = IF loop \in {"None", "closed"} THEN "open" ELSE loop
        /\ IF ok
           THEN /\ ib' = "IB" /\ gwConnected' = TRUE /\ connected' = TRUE
                /\ running' = TRUE
                /\ IF ~alive
                   THEN /\ alive' = TRUE /\ pc' = "loop"
                        /\ loopStop' = FALSE
                   ELSE UNCHANGED <<alive, pc, loopStop>>
           ELSE /\ ib' = "None" /\ gwConnected' = FALSE /\ connected' = FALSE
                /\ UNCHANGED <<running, alive, pc, loopStop>>
    /\ UNCHANGED <<ores, connectVars, mktData, serverVars, pureVars, storeVars, heap, readVars, cycle, option_contracts,
                   qualified_options, tickers_data, new_options_data,
                   orderVars, multiVars>>

\* connect() statement by statement, for a handler h that runs next to others.
\* Lines 41-43: the test of self.connected
connect_check(h) ==
    /\ cpc[h] = "idle"
    /\ ~connected
    /\ cpc' = [cpc EXCEPT ![h] = "attempt"]
    /\ UNCHANGED <<ores, orphans, mktData, serverVars, pureVars, clientVars,
                   storeVars, heap, cycleVars, readVars, orderVars, multiVars>>

\* lines 45-65 and 76-84: the loop, the new IB, the connection attempt and
\* self.connected; ok = FALSE: the attempt fails or raises
connect_attempt(h) ==
    /\ cpc[h] = "attempt"
    /\ loop' = IF loop \in {"None", "closed"} THEN "open" ELSE loop
    /\ \E ok \in BOOLEAN :
        IF ok
        THEN /\ ib' = "IB" /\ gwConnected' = TRUE /\ connected' = TRUE
             /\ cpc' = [cpc EXCEPT ![h] = "connected"]
        ELSE /\ ib' = "None" /\ gwConnected' = FALSE /\ connected' = FALSE
             /\ cpc' = [cpc EXCEPT ![h] = "idle"]
    /\ UNCHANGED <<ores, orphans, mktData, serverVars, pureVars, running, loopStop,
                   alive, storeVars, heap, cycleVars, readVars, orderVars,
                   multiVars>>

\* lines 67-71: self.running, and the test whether an update thread is alive
connect_test(h) ==
    /\ cpc[h] = "connected"
    /\ running' = TRUE
    /\ cpc' = [cpc EXCEPT ![h] = IF alive THEN "idle" ELSE "start"]
    /\ UNCHANGED <<ores, orphans, mktData, serverVars, pureVars, ib, gwConnected,
                   connected, loop, loopStop, alive, storeVars, heap, cycleVars,
                   readVars, orderVars, multiVars>>

\* lines 72-75: create the thread, assign it to self.update_thread, start it;
\* a thread started since the test is alive still and no longer named
connect_start(h) ==
    /\ cpc[h] = "start"
    /\ alive => orphans < MaxOrphans
    /\ orphans' = IF alive THEN orphans + 1 ELSE orphans
    /\ alive' = TRUE /\ pc' = "loop" /\ loopStop' = FALSE
    /\ cpc' = [cpc EXCEPT ![h] = "idle"]
    /\ UNCHANGED <<ores, mktData, serverVars, pureVars, ib, gwConnected, connected,
                   running, loop, storeVars, heap, cycle, option_contracts,
                   qualified_options, tickers_data, new_options_data, readVars,
                   orderVars, multiVars>>

\* a thread no longer named leaves its loop at the loop's test (lines 124-128)
orphan_ends ==
    /\ orphans > 0
    /\ ~running \/ NotConnected
    /\ orphans' = orphans - 1
    /\ UNCHANGED <<ores, cpc, mktData, serverVars, pureVars, clientVars, storeVars,
                   heap, cycleVars, readVars, orderVars, multiVars>>

\* disconnect(), up to the join on the update thread
disconnect_begin ==
    /\ dpc = "idle"
    /\ running' = FALSE
    /\ dpc' = "join"
    /\ UNCHANGED <<ores, connectVars, mktData, serverVars, pureVars, ib, gwConnected, connected, loop, loopStop, alive,
                   storeVars, heap, cycleVars, rpc, rcopy, ret,
                   orderVars, multiVars>>

\* disconnect_teardown cancelling every order of the ledger as well
disconnect_teardown_cancelAll ==
    /\ dpc = "join"
    /\ gwConnected' = FALSE
    /\ connected' = FALSE
    /\ ib' = "None"
    /\ loopStop' = IF loop = "open" /\ alive THEN TRUE ELSE loopStop
    /\ dpc' = "idle"
    /\ gwCancels' = gwCancels \cup DOMAIN orders
    /\ orders' = [id \in DOMAIN orders |-> [orders[id] EXCEPT !.status = "CANCELLING"]]
    /\ socket_emitter_thread_running' = FALSE
    /\ mktData' = {}
    /\ UNCHANGED <<ores, connectVars, emitter_tasks, subscribers, emits, pureVars,
                   running, loop, alive,
                   storeVars, heap, cycleVars, rpc, rcopy, ret,
                   nextOrderId, gwOrders, multiVars>>

\* disconnect(), after the join returned (thread finished or timeout elapsed);
\* its caller disconnect_from_tws_route then stops the emitter task
\* (server.py, lines 150-153)
disconnect_teardown ==
    /\ dpc = "join"
    /\ gwConnected' = FALSE
    /\ connected' = FALSE
    /\ ib' = "None"
    /\ loopStop' = IF loop = "open" /\ alive THEN TRUE ELSE loopStop
    /\ dpc' = "idle"
    /\ socket_emitter_thread_running' = FALSE
    /\ mktData' = {}
    /\ UNCHANGED <<ores, connectVars, emitter_tasks, subscribers, emits, pureVars,
                   running, loop, alive, storeVars, heap, cycleVars, rpc, rcopy, ret,
                   orderVars, multiVars>>

\* the gateway drops the connection: isConnected() turns false, and the
\* market data lines of the connection are gone
gateway_drop ==
    /\ ib = "IB" /\ gwConnected
    /\ gwConnected' = FALSE
    /\ mktData' = {}
    /\ UNCHANGED <<ores, connectVars, serverVars, pureVars, ib, connected, running, loop, loopStop, alive,
                   storeVars, heap, cycleVars, readVars,
                   orderVars, multiVars>>

(***************************************************************************)
(* The update thread: _run_update_loop and _update_loop_async_tasks.       *)
(***************************************************************************)
\* the dicts still referenced once the payloads are rets and the copies cps:
\* a dict nobody references is gone
Live(h, stored, building, cps, rets) ==
    LET refs == {stored, building} \cup {cps[r] : r \in Readers}
                    \cup {rets[i].ref : i \in 1..Len(rets)}
    IN [x \in DOMAIN h \cap refs |-> h[x]]

\* the locals of a cycle go out of scope
ResetLocals ==
    /\ option_contracts' = <<>> /\ qualified_options' = <<>>
    /\ tickers_data' = <<>> /\ new_options_data' = NoRef
    /\ heap' = Live(heap, options_data, NoRef, rcopy, ret)

\* the thread ends: the coroutine returned, or the stopped loop raised in
\* run_until_complete; finally: self.loop.close()
ThreadEnds ==
    /\ alive' = FALSE /\ pc' = "done" /\ loop' = "closed" /\ loopStop' = FALSE
    /\ ResetLocals

\* the positions at which the update coroutine is suspended in a gateway call
\* or an asyncio.sleep
AwaitPoints ==
    {"p_qualify", "p_ticker", "o_start", "o_chain", "o_qualopts", "o_reqmkt",
     "o_populate", "sleep"}

\* loop.stop requested by disconnect() takes effect at an await
run_update_loop_stopped ==
    /\ alive /\ loopStop
    /\ pc \in AwaitPoints
    /\ ThreadEnds
    /\ UNCHANGED <<ores, connectVars, mktData, serverVars, pureVars, ib, gwConnected, connected, running, storeVars, cycle, readVars,
                   orderVars, multiVars>>

\* update_loop_async_tasks looping on "while True", whatever self.running is
update_loop_async_tasks_ignoreRunning ==
    /\ alive /\ pc = "loop"
    /\ IF NotConnected
       THEN /\ ThreadEnds
            /\ UNCHANGED cycle
       ELSE /\ cycle < MaxCycles
            /\ cycle' = cycle + 1
            /\ pc' = "p_qualify"
            /\ UNCHANGED <<alive, loop, loopStop, heap, option_contracts,
                           qualified_options, tickers_data, new_options_data>>
    /\ UNCHANGED <<ores, connectVars, mktData, serverVars, pureVars, ib, gwConnected, connected,
                   running, storeVars, readVars, orderVars, multiVars>>

\* while self.running: if not connected: break; else start a cycle
update_loop_async_tasks ==
    /\ alive /\ pc = "loop"
    /\ IF ~running \/ NotConnected
       THEN /\ ThreadEnds
            /\ UNCHANGED cycle
       ELSE /\ cycle < MaxCycles
            /\ cycle' = cycle + 1
            /\ pc' = "p_qualify"
            /\ UNCHANGED <<alive, loop, loopStop, heap, option_contracts,
                           qualified_options, tickers_data, new_options_data>>
    /\ UNCHANGED <<ores, connectVars, mktData, serverVars, pureVars, ib, gwConnected, connected, running, storeVars, readVars,
                   orderVars, multiVars>>

\* await asyncio.sleep(REFRESH_RATE_MS / 1000) at the end of a cycle
update_loop_sleep ==
    /\ alive /\ pc = "sleep"
    /\ pc' = "loop"
    /\ ResetLocals
    /\ UNCHANGED <<ores, connectVars, mktData, serverVars, pureVars, clientVars, storeVars, cycle, readVars,
                   orderVars, multiVars>>

(***************************************************************************)
(* _update_spy_price_async.                                                *)
(***************************************************************************)
\* Stock('SPY', 'SMART', 'USD'), named like an option contract
spy_stock == <<0, "STK">>

\* lines 147-165: qualify the SPY stock and request its snapshot.
\* ok = FALSE: not connected, nothing qualified, or a gateway call raised.
update_spy_price_request ==
    /\ alive /\ pc = "p_qualify"
    /\ \E ok \in BOOLEAN :
        /\ ok => ~NotConnected
        /\ pc' = IF ok THEN "p_ticker" ELSE "o_start"
        /\ mktData' = IF ok THEN mktData \cup {spy_stock} ELSE mktData
    /\ UNCHANGED <<ores, connectVars, serverVars, pureVars, clientVars, storeVars, heap, cycle, option_contracts,
                   qualified_options, tickers_data, new_options_data, readVars,
                   orderVars, multiVars>>

\* the price stored for a ticker: new_price if it is > 0, else the old price
StoredPrice(old, t) ==
    IF Positive(NewPrice(t)) THEN NewPrice(t).val ELSE old

\* lines 167-181: read the ticker, store the price, cancel the snapshot
update_spy_price_store(t) ==
    /\ alive /\ pc = "p_ticker"
    /\ spy_price' = StoredPrice(spy_price, t)
    /\ priceCycle' = IF Positive(NewPrice(t)) THEN cycle ELSE priceCycle
    /\ mktData' = mktData \ {spy_stock}
    /\ pc' = "o_start"
    /\ UNCHANGED <<ores, connectVars, serverVars, pureVars, clientVars, options_data, lock, heap, pubs, cycle,
                   option_contracts, qualified_options, tickers_data,
                   new_options_data, readVars,
                   orderVars, multiVars>>

(***************************************************************************)
(* _update_options_chain_async.                                            *)
(***************************************************************************)
\* ChainGuard without the check of line 190
ChainGuard_noPriceCheck == ~NotConnected

\* the guard of lines 187-192: connected and a valid SPY price
ChainGuard == ~NotConnected /\ spy_price > 0

\* lines 187-204: the guards, then qualify the SPY stock
update_options_chain_start ==
    /\ alive /\ pc = "o_start"
    /\ \E ok \in BOOLEAN :
        /\ ok => ChainGuard
        /\ pc' = IF ok THEN "o_chain" ELSE "sleep"
    /\ UNCHANGED <<ores, connectVars, mktData, serverVars, pureVars, clientVars, storeVars, heap, cycle, option_contracts,
                   qualified_options, tickers_data, new_options_data, readVars,
                   orderVars, multiVars>>

\* lines 204-269: the chain parameters arrive.  res = "fail": no chains, or
\* the call raised; "noexpiry": today's expiry is not listed; "chain": it is.
update_options_chain_params ==
    /\ alive /\ pc = "o_chain"
    /\ \E res \in {"fail", "noexpiry", "chain"}, strikes \in ChainStrikeSets :
        LET all_strikes == SortedSeq(strikes)
        IN CASE res = "fail" ->
                  /\ strikes = {}
                  /\ pc' = "sleep"
                  /\ UNCHANGED option_contracts
             [] res = "noexpiry" ->
                  /\ strikes = {}
                  /\ pc' = "o_clear"
                  /\ UNCHANGED option_contracts
             [] res = "chain" ->
                  IF all_strikes = <<>>
                  THEN /\ pc' = "sleep"
                       /\ UNCHANGED option_contracts
                  ELSE /\ option_contracts' = OptionContracts(
                              SelectedStrikes(all_strikes, spy_price,
                                              strikes_around_atm_count))
                       /\ pc' = "o_qualopts"
    /\ UNCHANGED <<ores, connectVars, mktData, serverVars, pureVars, clientVars, storeVars, heap, cycle, qualified_options,
                   tickers_data, new_options_data, readVars,
                   orderVars, multiVars>>

\* line 223: enter "with self.options_data_lock"
update_options_chain_clear_lock ==
    /\ alive /\ pc = "o_clear"
    /\ lock = "free"
    /\ lock' = "update"
    /\ pc' = "o_clearing"
    /\ UNCHANGED <<ores, connectVars, mktData, serverVars, pureVars, clientVars, spy_price, options_data, priceCycle, pubs, heap,
                   cycle, option_contracts, qualified_options, tickers_data,
                   new_options_data, readVars,
                   orderVars, multiVars>>

\* update_options_chain_clear leaving the stored dict as it is
update_options_chain_clear_keep ==
    /\ alive /\ pc = "o_clearing"
    /\ lock' = "free"
    /\ pc' = "sleep"
    /\ UNCHANGED <<ores, connectVars, mktData, serverVars, pureVars, clientVars, spy_price,
                   options_data, priceCycle, pubs, heap, cycle, option_contracts,
                   qualified_options, tickers_data, new_options_data, readVars,
                   orderVars, multiVars>>

\* lines 224-227: clear the stored dict in place, leave the with block
update_options_chain_clear ==
    /\ alive /\ pc = "o_clearing"
    /\ heap' = [heap EXCEPT ![options_data] = EmptyMap]
    /\ lock' = "free"
    /\ pc' = "sleep"
    /\ UNCHANGED <<ores, connectVars, mktData, serverVars, pureVars, clientVars, spy_price, options_data, priceCycle, pubs,
                   cycle, option_contracts, qualified_options,
                   tickers_data, new_options_data, readVars,
                   orderVars, multiVars>>

\* update_options_chain_qualified with no "except Exception" around it: a
\* raising qualification ends the coroutine and with it the thread
update_options_chain_qualified_fatal ==
    /\ alive /\ pc = "o_qualopts"
    /\ \/ /\ ThreadEnds
       \/ /\ ~NotConnected
          /\ \E Q \in SUBSET SeqRange(option_contracts) :
                qualified_options' = FilterSeq(option_contracts, Q)
          /\ pc' = "o_reqmkt"
          /\ UNCHANGED <<alive, loop, loopStop, heap, option_contracts,
                         tickers_data, new_options_data>>
    /\ UNCHANGED <<ores, connectVars, mktData, serverVars, pureVars, ib, gwConnected, connected,
                   running, storeVars, cycle, readVars, orderVars, multiVars>>

\* lines 269-273: the batch qualification returns; unqualified entries dropped
update_options_chain_qualified ==
    /\ alive /\ pc = "o_qualopts"
    /\ \/ /\ pc' = "sleep"
          /\ UNCHANGED qualified_options
       \/ /\ ~NotConnected
          /\ \E Q \in SUBSET SeqRange(option_contracts) :
                qualified_options' = FilterSeq(option_contracts, Q)
          /\ pc' = "o_reqmkt"
    /\ UNCHANGED <<ores, connectVars, mktData, serverVars, pureVars, clientVars, storeVars, heap, cycle, option_contracts,
                   tickers_data, new_options_data, readVars,
                   orderVars, multiVars>>

\* update_options_chain_request entering the with block before the
\* population sleep instead of after it
update_options_chain_request_locked ==
    /\ alive /\ pc = "o_reqmkt"
    /\ IF Len(tickers_data) = Len(qualified_options)
       THEN /\ lock = "free"
            /\ lock' = "update"
            /\ pc' = "o_populate"
            /\ UNCHANGED <<tickers_data, mktData>>
       ELSE \/ /\ ~NotConnected
               /\ tickers_data' = Append(tickers_data,
                                         qualified_options[Len(tickers_data) + 1])
               /\ mktData' = mktData \cup {qualified_options[Len(tickers_data) + 1]}
               /\ UNCHANGED <<pc, lock>>
            \/ /\ pc' = "sleep"
               /\ UNCHANGED <<tickers_data, lock, mktData>>
    /\ UNCHANGED <<ores, connectVars, serverVars, pureVars, clientVars, spy_price, options_data, priceCycle, pubs, heap,
                   cycle, option_contracts, qualified_options,
                   new_options_data, readVars,
                   orderVars, multiVars>>

\* update_options_chain_request with a handler that empties the stored dict
\* when reqMktData raises
update_options_chain_request_reset ==
    /\ alive /\ pc = "o_reqmkt"
    /\ IF Len(tickers_data) = Len(qualified_options)
       THEN /\ pc' = "o_populate"
            /\ UNCHANGED <<tickers_data, mktData, heap>>
       ELSE \/ /\ ~NotConnected
               /\ tickers_data' = Append(tickers_data,
                                         qualified_options[Len(tickers_data) + 1])
               /\ mktData' = mktData \cup {qualified_options[Len(tickers_data) + 1]}
               /\ UNCHANGED <<pc, heap>>
            \/ /\ pc' = "sleep"
               /\ heap' = [heap EXCEPT ![options_data] = EmptyMap]
               /\ UNCHANGED <<tickers_data, mktData>>
    /\ UNCHANGED <<ores, connectVars, serverVars, pureVars, clientVars, storeVars, cycle, option_contracts,
                   qualified_options, new_options_data, readVars,
                   orderVars, multiVars>>

\* lines 275-281: one reqMktData per qualified contract, a throttle sleep
\* after each, then the population sleep
update_options_chain_request ==
    /\ alive /\ pc = "o_reqmkt"
    /\ IF Len(tickers_data) = Len(qualified_options)
       THEN /\ pc' = "o_populate"
            /\ UNCHANGED <<tickers_data, mktData>>
       ELSE \/ /\ ~NotConnected
               /\ tickers_data' = Append(tickers_data,
                                         qualified_options[Len(tickers_data) + 1])
               /\ mktData' = mktData \cup {qualified_options[Len(tickers_data) + 1]}
               /\ UNCHANGED pc
            \/ /\ pc' = "sleep"
               /\ UNCHANGED <<tickers_data, mktData>>
    /\ UNCHANGED <<ores, connectVars, serverVars, pureVars, clientVars, storeVars, heap, cycle, option_contracts,
                   qualified_options, new_options_data, readVars,
                   orderVars, multiVars>>

\* the entry stored for one ticker (lines 293-308); history: cyc is the cycle
\* that built the entry, of the number of tickers that cycle built entries for
Quote(key, t, c, n) ==
    [strike |-> key[1], right |-> key[2],
     bid |-> Normalise(t.bid), ask |-> Normalise(t.ask), cyc |-> c, of |-> n]

\* new_options_data for the tickers and the values they hold (lines 287-308)
NewOptionsData(tickers, val, c) ==
    [k \in SeqRange(tickers) |-> Quote(k, val[k], c, Len(tickers))]

\* update_options_chain_build making an entry for every contract generated,
\* qualified or not
update_options_chain_build_all ==
    /\ alive /\ pc = "o_populate"
    /\ \E val \in [SeqRange(option_contracts) -> QuoteTickers] :
        heap' = (cycle :> NewOptionsData(option_contracts, val, cycle)) @@ heap
    /\ new_options_data' = cycle
    /\ pc' = "o_swap"
    /\ UNCHANGED <<ores, connectVars, mktData, serverVars, pureVars, clientVars, spy_price, options_data, lock, priceCycle, pubs,
                   cycle, option_contracts, qualified_options, tickers_data,
                   readVars,
                   orderVars, multiVars>>

\* lines 287-308: after the population sleep, build the new dict
update_options_chain_build ==
    /\ alive /\ pc = "o_populate"
    /\ \E val \in [SeqRange(tickers_data) -> QuoteTickers] :
        heap' = (cycle :> NewOptionsData(tickers_data, val, cycle)) @@ heap
    /\ new_options_data' = cycle
    /\ pc' = "o_swap"
    /\ UNCHANGED <<ores, connectVars, mktData, serverVars, pureVars, clientVars, spy_price, options_data, lock, priceCycle, pubs,
                   cycle, option_contracts, qualified_options, tickers_data,
                   readVars,
                   orderVars, multiVars>>

\* line 310: enter "with self.options_data_lock"
update_options_chain_swap_lock ==
    /\ alive /\ pc = "o_swap"
    /\ lock = "free"
    /\ lock' = "update"
    /\ pc' = "o_swapping"
    /\ UNCHANGED <<ores, connectVars, mktData, serverVars, pureVars, clientVars, spy_price, options_data, priceCycle, pubs, heap,
                   cycle, option_contracts, qualified_options, tickers_data,
                   new_options_data, readVars,
                   orderVars, multiVars>>

\* update_options_chain_swap merging the new entries into the stored dict
\* (self.options_data.update(new_options_data)) instead of replacing it
update_options_chain_swap_merge ==
    /\ alive /\ pc = "o_swapping"
    /\ heap' = Live([heap EXCEPT ![options_data] =
                         heap[new_options_data] @@ heap[options_data]],
                    options_data, NoRef, rcopy, ret)
    /\ lock' = "free"
    /\ pubs' = pubs + 1
    /\ mktData' = mktData \ SeqRange(tickers_data)
    /\ pc' = "sleep"
    /\ UNCHANGED <<ores, connectVars, serverVars, pureVars, clientVars, spy_price, options_data, priceCycle, cycle,
                   option_contracts, qualified_options, tickers_data,
                   new_options_data, readVars,
                   orderVars, multiVars>>

\* lines 310-321: assign the new dict, leave the with block, then one
\* cancelMktData per ticker
update_options_chain_swap ==
    /\ alive /\ pc = "o_swapping"
    /\ options_data' = new_options_data
    /\ heap' = Live(heap, new_options_data, new_options_data, rcopy, ret)
    /\ lock' = "free"
    /\ pubs' = pubs + 1
    /\ mktData' = mktData \ SeqRange(tickers_data)
    /\ pc' = "sleep"
    /\ UNCHANGED <<ores, connectVars, serverVars, pureVars, clientVars, spy_price, priceCycle, cycle,
                   option_contracts, qualified_options, tickers_data,
                   new_options_data, readVars,
                   orderVars, multiVars>>

(***************************************************************************)
(* The strike selection and the quote entry on their own, for inputs the   *)
(* small chain of the refresh cycle above does not reach.  Strikes and     *)
(* prices are in tenths of a dollar here.                                  *)
(***************************************************************************)
StrikeValues == {990, 1000, 1010, 1020}
\* the strikes 95, 96, ..., 105
ExampleStrikes == [i \in 1..11 |-> 940 + 10 * i]
\* chain.strikes: a list, unsorted and with duplicates
StrikeLists ==
    UNION {[1..k -> StrikeValues] : k \in 1..MaxStrikes} \cup {ExampleStrikes}
\* self.spy_price, positive (line 190)
StrikePrices == {985, 990, 995, 1004, 1005, 1015, 1030}
StrikeCounts == {0, 1, 2, strikes_around_atm_count}
StrikeInputs == [strikes : StrikeLists, price : StrikePrices, n : StrikeCounts]

\* lines 231-249 for the input drawn
select_strikes ==
    /\ selected_strikes = <<>>
    /\ selected_strikes' =
           SelectedStrikes(SortedSeq(SeqRange(strike_input.strikes)),
                           strike_input.price, strike_input.n)
    /\ UNCHANGED <<ores, connectVars, mktData, serverVars, strike_input, ticker_input, quote,
                   clientVars, storeVars, heap, cycleVars, readVars, orderVars,
                   multiVars>>

InitStrikes ==
    /\ InitProgram
    /\ strike_input \in StrikeInputs /\ selected_strikes = <<>>
    /\ ticker_input = NoInput /\ quote = <<>>

SpecStrikes == InitStrikes /\ [][select_strikes]_vars

\* what ticker.bid or ticker.ask can be
FieldValues == {Missing, NaN, Num(-1), Num(-2), Num(0), Num(6)}
TickerInputs ==
    [key : {<<100, Rights[1]>>, <<100, Rights[2]>>},
     bid : FieldValues, ask : FieldValues]

\* lines 293-308 for the ticker drawn
build_quote ==
    /\ quote = <<>>
    /\ quote' = <<Quote(ticker_input.key, ticker_input, 0, 1)>>
    /\ UNCHANGED <<ores, connectVars, mktData, serverVars, strike_input, selected_strikes,
                   ticker_input, clientVars, storeVars, heap, cycleVars, readVars,
                   orderVars, multiVars>>

InitQuote ==
    /\ InitProgram
    /\ strike_input = NoInput /\ selected_strikes = <<>>
    /\ ticker_input \in TickerInputs /\ quote = <<>>

SpecQuote == InitQuote /\ [][build_quote]_vars

(***************************************************************************)
(* get_options_data.                                                       *)
(***************************************************************************)
\* references of the copies dict(self.options_data): CopyRef names the copy a
\* call in progress holds, RetRef the copy in the payload returned last
CopyRef == NoRef + 1
RetRef == NoRef + 2

\* the payload returned while not self.connected (line 330)
ErrorPayload ==
    [error |-> TRUE, spy_price |-> 0, options |-> EmptyMap, ref |-> NoRef,
     pubs |-> pubs, priceCycle |-> 0]

\* the dict of a payload keeps its identity; only the name of a private copy
\* changes once the call returns
PayloadRef(ref) == IF ref = CopyRef THEN RetRef ELSE ref

\* the payload of lines 337-345: the copied dict and the price read
DataPayload(ref, price) ==
    [error |-> FALSE, spy_price |-> price, options |-> heap[ref],
     ref |-> PayloadRef(ref), pubs |-> pubs, priceCycle |-> priceCycle]

\* lines 328-330: the connected check; the error payload when it fails
get_options_data_check(r) ==
    /\ rpc[r] = "idle"
    /\ IF ~connected
       THEN /\ ret' = <<ErrorPayload>>
            /\ heap' = Live(heap, options_data, new_options_data, rcopy, <<>>)
            /\ UNCHANGED rpc
       ELSE /\ rpc' = [rpc EXCEPT ![r] = "acquire"]
            /\ UNCHANGED <<ret, heap>>
    /\ UNCHANGED <<ores, connectVars, mktData, serverVars, pureVars, clientVars, storeVars, cycleVars, dpc, rcopy,
                   orderVars, multiVars>>

\* get_options_data_copy keeping the stored dict itself, not a copy of it
get_options_data_copy_alias(r) ==
    /\ rpc[r] = "acquire"
    /\ lock = "free"
    /\ lock' = r
    /\ rcopy' = [rcopy EXCEPT ![r] = options_data]
    /\ rpc' = [rpc EXCEPT ![r] = "locked"]
    /\ UNCHANGED <<ores, connectVars, mktData, serverVars, pureVars, clientVars, spy_price, options_data, priceCycle, pubs, heap,
                   cycleVars, dpc, ret,
                   orderVars, multiVars>>

\* lines 332-334: take the lock and copy the stored dict
get_options_data_copy(r) ==
    /\ rpc[r] = "acquire"
    /\ lock = "free"
    /\ lock' = r
    /\ heap' = (CopyRef :> heap[options_data]) @@ heap
    /\ rcopy' = [rcopy EXCEPT ![r] = CopyRef]
    /\ rpc' = [rpc EXCEPT ![r] = "locked"]
    /\ UNCHANGED <<ores, connectVars, mktData, serverVars, pureVars, clientVars, spy_price, options_data, priceCycle, pubs,
                   cycleVars, dpc, ret,
                   orderVars, multiVars>>

\* lines 335-345: read the price, release the lock, return the payload
get_options_data_return(r) ==
    /\ rpc[r] = "locked"
    /\ lock' = "free"
    /\ ret' = <<DataPayload(rcopy[r], spy_price)>>
    /\ rpc' = [rpc EXCEPT ![r] = "idle"]
    /\ rcopy' = [rcopy EXCEPT ![r] = NoRef]
    /\ heap' = (PayloadRef(rcopy[r]) :> heap[rcopy[r]])
                   @@ Live(heap, options_data, new_options_data, rcopy', <<>>)
    /\ UNCHANGED <<ores, connectVars, mktData, serverVars, pureVars, clientVars, spy_price, options_data, priceCycle, pubs,
                   cycleVars, dpc,
                   orderVars, multiVars>>

(***************************************************************************)
(* The client, its update thread and its readers.                          *)
(***************************************************************************)
Next ==
    \/ connect
    \/ disconnect_begin
    \/ disconnect_teardown
    \/ gateway_drop
    \/ run_update_loop_stopped
    \/ update_loop_async_tasks
    \/ update_loop_sleep
    \/ update_spy_price_request
    \/ \E t \in PriceTickers : update_spy_price_store(t)
    \/ update_options_chain_start
    \/ update_options_chain_params
    \/ update_options_chain_clear_lock
    \/ update_options_chain_clear
    \/ update_options_chain_qualified
    \/ update_options_chain_request
    \/ update_options_chain_build
    \/ update_options_chain_swap_lock
    \/ update_options_chain_swap
    \/ \E r \in Readers : get_options_data_check(r)
    \/ \E r \in Readers : get_options_data_copy(r)
    \/ \E r \in Readers : get_options_data_return(r)

Spec == Init /\ [][Next]_vars

(***************************************************************************)
(* OrderManager (order_manager.py).  Each gateway call of a handler is a   *)
(* step of its own, so that other handlers may run between two calls.      *)
(***************************************************************************)
\* the (symbol, expiry) of a leg; the other fields of a leg do not decide
\* which path place_multi_leg_order takes
LegTypes ==
    { [symbol |-> "SPY", expiry |-> "20250514"],
      [symbol |-> "SPY", expiry |-> "20250516"],
      [symbol |-> "QQQ", expiry |-> "20250514"] }

\* the lists of legs a request may carry.  The code only compares symbols and
\* expiries for equality, so the first leg is taken to be SPY 20250514.
LegLists ==
    { ls \in UNION { [1..n -> LegTypes] : n \in 0..MaxLegs } :
        ls # <<>> => ls[1] = [symbol |-> "SPY", expiry |-> "20250514"] }

\* SameExpiryAndSymbol sending every request down the bracket path
SameExpiryAndSymbol_never(ls) == FALSE

\* line 119: all legs share one expiry and one symbol
SameExpiryAndSymbol(ls) ==
    /\ Cardinality({ls[i].expiry : i \in 1..Len(ls)}) = 1
    /\ Cardinality({ls[i].symbol : i \in 1..Len(ls)}) = 1

\* the number of different (symbol, expiry) pairs among the legs
Kinds(ls) == Cardinality({ls[i] : i \in 1..Len(ls)})

\* the result of a request; req, path, n, kinds, reason and at (the leg the
\* handler had reached) are history
Result(ok, path, reason, order_id, children) ==
    <<[success |-> ok, order_id |-> order_id, child_ids |-> children,
       path |-> path, reason |-> reason, req |-> mreq, n |-> Len(legs),
       kinds |-> Kinds(legs), at |-> leg_i]>>

\* the handler returns: its locals are gone
Return(res) ==
    /\ mres' = res
    /\ mpc' = "idle" /\ legs' = <<>> /\ mreq' = 0 /\ leg_i' = 0
    /\ combo_legs' = <<>>
    /\ parent_id' = 0 /\ child_ids' = <<>>

\* a ledger record; trade handle and contract are always present, req and
\* leg (history) name the request and the leg the record was made for
Record(status, parent, children, req, leg) ==
    [status |-> status, parent |-> parent, children |-> children,
     req |-> req, leg |-> leg]

\* an order as placeOrder sends it, with the combo legs of its contract
\* (none unless the contract is a BAG); req and leg are history
GwOrder(id, parent, transmit, comboLegs, req, leg) ==
    [orderId |-> id, parentId |-> parent, transmit |-> transmit,
     comboLegs |-> comboLegs, req |-> req, leg |-> leg]

\* place_multi_leg_order without the test of self.client.connected
place_multi_leg_order_unchecked(ls) ==
    /\ mpc = "idle"
    /\ requests < MaxRequests
    /\ requests' = requests + 1
    /\ IF ls = <<>>
       THEN /\ mres' = <<[success |-> FALSE, order_id |-> 0, child_ids |-> <<>>,
                          path |-> "none", reason |-> "no_legs",
                          req |-> requests + 1, n |-> 0,
                          kinds |-> 0, at |-> 0]>>
            /\ UNCHANGED <<mpc, legs, mreq, leg_i>>
       ELSE /\ legs' = ls
            /\ mreq' = requests + 1
            /\ leg_i' = 1
            /\ mpc' = IF Cardinality({ls[i] : i \in 1..Len(ls)}) = 1
                      THEN "combo_qualify" ELSE "parent_qualify"
            /\ UNCHANGED mres
    /\ UNCHANGED <<ores, connectVars, mktData, serverVars, pureVars, clientVars, storeVars, heap, cycleVars, readVars, orderVars,
                   combo_legs, parent_id, child_ids>>

\* lines 110-119, 172-175: the connected check, the empty check and the
\* choice between the combo and the bracket path
place_multi_leg_order(ls) ==
    /\ mpc = "idle"
    /\ requests < MaxRequests
    /\ requests' = requests + 1
    /\ IF ~connected
       THEN /\ mres' = <<[success |-> FALSE, order_id |-> 0, child_ids |-> <<>>,
                          path |-> "none", reason |-> "not_connected",
                          req |-> requests + 1, n |-> Len(ls),
                          kinds |-> Kinds(ls), at |-> 0]>>
            /\ UNCHANGED <<mpc, legs, mreq, leg_i>>
       ELSE IF ls = <<>>
       THEN /\ mres' = <<[success |-> FALSE, order_id |-> 0, child_ids |-> <<>>,
                          path |-> "none", reason |-> "no_legs",
                          req |-> requests + 1, n |-> 0,
                          kinds |-> 0, at |-> 0]>>
            /\ UNCHANGED <<mpc, legs, mreq, leg_i>>
       ELSE /\ legs' = ls
            /\ mreq' = requests + 1
            /\ leg_i' = 1
            /\ mpc' = IF SameExpiryAndSymbol(ls) THEN "combo_qualify"
                      ELSE "parent_qualify"
            /\ UNCHANGED mres
    /\ UNCHANGED <<ores, connectVars, mktData, serverVars, pureVars, clientVars, storeVars, heap, cycleVars, readVars, orderVars,
                   combo_legs, parent_id, child_ids>>

\* combo_qualify_leg submitting the combo of the legs qualified so far when a
\* leg fails to qualify
combo_qualify_leg_partial ==
    /\ mpc = "combo_qualify"
    /\ \E ok \in BOOLEAN :
        /\ ok => ~NotConnected
        /\ IF ~ok
           THEN /\ Return(Result(FALSE, "combo", "invalid_contract", 0, <<>>))
                /\ gwOrders' = Append(gwOrders,
                       GwOrder(nextOrderId, 0, TRUE, combo_legs, mreq, 0))
                /\ nextOrderId' = nextOrderId + 1
                /\ UNCHANGED <<orders, gwCancels>>
           ELSE /\ combo_legs' = Append(combo_legs, leg_i)
                /\ leg_i' = leg_i + 1
                /\ mpc' = IF leg_i = Len(legs) THEN "combo_place" ELSE mpc
                /\ UNCHANGED <<legs, mreq, parent_id, child_ids, mres, orderVars>>
    /\ UNCHANGED <<ores, connectVars, mktData, serverVars, pureVars, clientVars, storeVars, heap, cycleVars, readVars,
                   requests>>

\* lines 130-149: create_option_contract for one leg of the combo.
\* ok = FALSE: qualifyContracts returned nothing or raised.
combo_qualify_leg ==
    /\ mpc = "combo_qualify"
    /\ \E ok \in BOOLEAN :
        /\ ok => ~NotConnected
        /\ IF ~ok
           THEN Return(Result(FALSE, "combo", "invalid_contract", 0, <<>>))
           ELSE /\ combo_legs' = Append(combo_legs, leg_i)
                /\ leg_i' = leg_i + 1
                /\ mpc' = IF leg_i = Len(legs) THEN "combo_place" ELSE mpc
                /\ UNCHANGED <<legs, mreq, parent_id, child_ids, mres>>
    /\ UNCHANGED <<ores, connectVars, mktData, serverVars, pureVars, clientVars, storeVars, heap, cycleVars, readVars, orderVars,
                   requests>>

\* lines 151-171: place the combo order and record it.
\* ok = FALSE: placeOrder raised.
combo_place ==
    /\ mpc = "combo_place"
    /\ \E ok \in BOOLEAN :
        /\ ok => ~NotConnected
        /\ IF ~ok
           THEN /\ Return(Result(FALSE, "combo", "exception", 0, <<>>))
                /\ UNCHANGED orderVars
           ELSE /\ gwOrders' = Append(gwOrders, GwOrder(nextOrderId, 0, TRUE, combo_legs,
                                                      mreq, 0))
                /\ nextOrderId' = nextOrderId + 1
                /\ orders' = (nextOrderId :> Record("SUBMITTED", 0, <<>>, mreq, 0))
                                 @@ orders
                /\ UNCHANGED gwCancels
                /\ Return(Result(TRUE, "combo", "", nextOrderId, <<>>))
    /\ UNCHANGED <<ores, connectVars, mktData, serverVars, pureVars, clientVars, storeVars, heap, cycleVars, readVars, requests>>

\* lines 175-186: create_option_contract for the parent leg
parent_qualify ==
    /\ mpc = "parent_qualify"
    /\ \E ok \in BOOLEAN :
        /\ ok => ~NotConnected
        /\ IF ~ok
           THEN Return(Result(FALSE, "bracket", "invalid_parent", 0, <<>>))
           ELSE /\ mpc' = "parent_place"
                /\ UNCHANGED <<legs, mreq, leg_i, combo_legs, parent_id, child_ids, mres>>
    /\ UNCHANGED <<ores, connectVars, mktData, serverVars, pureVars, clientVars, storeVars, heap, cycleVars, readVars, orderVars,
                   requests>>

\* lines 188-218: place the parent order, transmit = False, and record it
parent_place ==
    /\ mpc = "parent_place"
    /\ \E ok \in BOOLEAN :
        /\ ok => ~NotConnected
        /\ IF ~ok
           THEN /\ Return(Result(FALSE, "bracket", "exception", 0, <<>>))
                /\ UNCHANGED orderVars
           ELSE /\ gwOrders' = Append(gwOrders, GwOrder(nextOrderId, 0, FALSE, <<>>,
                                                      mreq, 1))
                /\ nextOrderId' = nextOrderId + 1
                /\ orders' = (nextOrderId :> Record("SUBMITTED", 0, <<>>, mreq, 1))
                                 @@ orders
                /\ parent_id' = nextOrderId
                /\ child_ids' = <<>>
                /\ leg_i' = 2
                /\ mpc' = "child_qualify"
                /\ UNCHANGED <<gwCancels, legs, mreq, combo_legs, mres>>
    /\ UNCHANGED <<ores, connectVars, mktData, serverVars, pureVars, clientVars, storeVars, heap, cycleVars, readVars, requests>>

\* lines 219-231: create_option_contract for a child leg; when it fails,
\* cancelOrder(parent_order) and return.  cancelled = FALSE: cancelOrder raised.
child_qualify ==
    /\ mpc = "child_qualify"
    /\ \E ok \in BOOLEAN, cancelled \in BOOLEAN :
        /\ ok => (~NotConnected /\ cancelled)
        /\ cancelled => ib # "None"
        /\ IF ok
           THEN /\ mpc' = "child_place"
                /\ UNCHANGED <<legs, mreq, leg_i, combo_legs, parent_id, child_ids,
                            mres, gwCancels>>
           ELSE /\ gwCancels' = IF cancelled THEN gwCancels \cup {parent_id}
                                ELSE gwCancels
                /\ Return(Result(FALSE, "bracket",
                                 IF cancelled THEN "invalid_child" ELSE "exception",
                                 0, <<>>))
    /\ UNCHANGED <<ores, connectVars, mktData, serverVars, pureVars, clientVars, storeVars, heap, cycleVars, readVars, orders,
                   nextOrderId, gwOrders, requests>>

\* ChildTransmit transmitting every child
ChildTransmit_every(i, n) == TRUE

\* transmit of the child placed for leg i of n (i == len(legs) - 1 with the
\* code's 0-based legs)
ChildTransmit(i, n) == i = n

\* WithChild leaving the parent's children list as it is
WithChild_unlinked(ords, parent, child) == ords

\* line 260: the child id appended to the parent record's children
WithChild(ords, parent, child) ==
    [ords EXCEPT ![parent].children = Append(@, child)]

\* lines 233-271: place the child order linked to the parent and record it;
\* after the last leg, return success
child_place ==
    /\ mpc = "child_place"
    /\ \E ok \in BOOLEAN :
        /\ ok => ~NotConnected
        /\ IF ~ok
           THEN /\ Return(Result(FALSE, "bracket", "exception", 0, <<>>))
                /\ UNCHANGED orderVars
           ELSE /\ gwOrders' = Append(gwOrders,
                      GwOrder(nextOrderId, parent_id,
                              ChildTransmit(leg_i, Len(legs)), <<>>, mreq, leg_i))
                /\ nextOrderId' = nextOrderId + 1
                /\ orders' = (nextOrderId :> Record("SUBMITTED", parent_id, <<>>, mreq, leg_i))
                      @@ WithChild(orders, parent_id, nextOrderId)
                /\ UNCHANGED gwCancels
                /\ IF leg_i = Len(legs)
                   THEN Return(Result(TRUE, "bracket", "", parent_id,
                                      Append(child_ids, nextOrderId)))
                   ELSE /\ child_ids' = Append(child_ids, nextOrderId)
                        /\ leg_i' = leg_i + 1
                        /\ mpc' = "child_qualify"
                        /\ UNCHANGED <<legs, mreq, combo_legs, parent_id, mres>>
    /\ UNCHANGED <<ores, connectVars, mktData, serverVars, pureVars, clientVars, storeVars, heap, cycleVars, readVars, requests>>

(***************************************************************************)
(* place_single_order, cancel_order and get_order_status.  Each makes its  *)
(* gateway calls one after the other and writes at most its own ledger     *)
(* record, so each is one step; what the gateway answers is an input.      *)
(***************************************************************************)
\* the dict one of these three returned: success, the message (as a reason
\* code), order_id and status where the dict has them, detail when it has
\* filled and remaining; op (history) names the operation
OpResult(op, ok, reason, order_id, status, detail) ==
    <<[op |-> op, success |-> ok, reason |-> reason, order_id |-> order_id,
       status |-> status, detail |-> detail]>>

\* the order_details of a place_single_order request: its order_type and
\* whether it carries a limit_price
OrderDetails ==
    { [order_type |-> "MARKET", limit_price |-> FALSE],
      [order_type |-> "LIMIT", limit_price |-> TRUE],
      [order_type |-> "LIMIT", limit_price |-> FALSE],
      [order_type |-> "STOP", limit_price |-> FALSE] }

\* SingleOutcome without the order type check: any type is placed
SingleOutcome_anyType(d, isConnected, qualified, placed) ==
    IF ~isConnected THEN "not_connected"
    ELSE IF ~qualified THEN "invalid_contract"
    ELSE IF ~placed THEN "exception"
    ELSE ""

\* why place_single_order fails, "" when it does not (lines 59-89, 104-106).
\* qualified: create_option_contract returns a contract; placed: placeOrder
\* returns and does not raise.
SingleOutcome(d, isConnected, qualified, placed) ==
    IF ~isConnected THEN "not_connected"
    ELSE IF ~qualified THEN "invalid_contract"
    ELSE IF d.order_type = "LIMIT" /\ ~d.limit_price THEN "exception"
    ELSE IF d.order_type \notin {"MARKET", "LIMIT"} THEN "unsupported_type"
    ELSE IF ~placed THEN "exception"
    ELSE ""

\* place_single_order(order_details), lines 56-106, when the gateway answers
\* qualified and placed
place_single_order(d, qualified, placed) ==
    /\ requests < MaxRequests
    /\ requests' = requests + 1
    /\ qualified => ~NotConnected
    /\ placed => ~NotConnected
    /\ LET reason == SingleOutcome(d, connected, qualified, placed)
       IN IF reason = ""
          THEN /\ gwOrders' = Append(gwOrders,
                      GwOrder(nextOrderId, 0, TRUE, <<>>, requests + 1, 0))
               /\ nextOrderId' = nextOrderId + 1
               /\ orders' = (nextOrderId :>
                                Record("SUBMITTED", 0, <<>>, requests + 1, 0))
                            @@ orders
               /\ ores' = OpResult("place", TRUE, "", nextOrderId, "", FALSE)
          ELSE /\ UNCHANGED <<gwOrders, nextOrderId, orders>>
               /\ ores' = OpResult("place", FALSE, reason, 0, "", FALSE)
    /\ UNCHANGED <<connectVars, mktData, serverVars, pureVars,
                   clientVars, storeVars, heap, cycleVars, readVars, gwCancels,
                   mpc, legs, mreq, leg_i, combo_legs, parent_id, child_ids, mres>>

\* the order ids a caller may name: those handed out, and one not yet in use
OrderIds == 1..nextOrderId

\* CancelStatus recording the cancel as already confirmed
CancelStatus_cancelled == "CANCELLED"

\* the cached status cancel_order stores (line 291)
CancelStatus == "CANCELLING"

\* cancel_order without the lookup of line 283: the cancel goes to the
\* gateway whether the ledger knows the id or not
cancel_order_unchecked(order_id) ==
    /\ \E ok \in BOOLEAN :
        /\ ok => ib # "None"
        /\ IF ~connected
           THEN /\ ores' = OpResult("cancel", FALSE, "not_connected", 0, "", FALSE)
                /\ UNCHANGED <<gwCancels, orders>>
           ELSE IF ~ok
           THEN /\ ores' = OpResult("cancel", FALSE, "exception", 0, "", FALSE)
                /\ UNCHANGED <<gwCancels, orders>>
           ELSE /\ gwCancels' = gwCancels \cup {order_id}
                /\ orders' = IF order_id \in DOMAIN orders
                             THEN [orders EXCEPT ![order_id].status = CancelStatus]
                             ELSE orders
                /\ ores' = OpResult("cancel", TRUE, "", 0, "", FALSE)
    /\ UNCHANGED <<connectVars, mktData, serverVars, pureVars,
                   clientVars, storeVars, heap, cycleVars, readVars,
                   nextOrderId, gwOrders, multiVars>>

\* cancel_order storing the status (line 291) before it calls cancelOrder
\* (line 290): the status is stored even when the call raises
cancel_order_markFirst(order_id) ==
    /\ \E ok \in BOOLEAN :
        /\ ok => ib # "None"
        /\ IF ~connected
           THEN /\ ores' = OpResult("cancel", FALSE, "not_connected", 0, "", FALSE)
                /\ UNCHANGED <<gwCancels, orders>>
           ELSE IF order_id \notin DOMAIN orders
           THEN /\ ores' = OpResult("cancel", FALSE, "not_found", 0, "", FALSE)
                /\ UNCHANGED <<gwCancels, orders>>
           ELSE /\ orders' = [orders EXCEPT ![order_id].status = CancelStatus]
                /\ gwCancels' = IF ok THEN gwCancels \cup {order_id} ELSE gwCancels
                /\ ores' = OpResult("cancel", ok, IF ok THEN "" ELSE "exception",
                                    0, "", FALSE)
    /\ UNCHANGED <<connectVars, mktData, serverVars, pureVars,
                   clientVars, storeVars, heap, cycleVars, readVars,
                   nextOrderId, gwOrders, multiVars>>

\* cancel_order dropping the record of the order it has cancelled
cancel_order_forget(order_id) ==
    /\ \E ok \in BOOLEAN :
        /\ ok => ib # "None"
        /\ IF ~connected
           THEN /\ ores' = OpResult("cancel", FALSE, "not_connected", 0, "", FALSE)
                /\ UNCHANGED <<gwCancels, orders>>
           ELSE IF order_id \notin DOMAIN orders
           THEN /\ ores' = OpResult("cancel", FALSE, "not_found", 0, "", FALSE)
                /\ UNCHANGED <<gwCancels, orders>>
           ELSE IF ~ok
           THEN /\ ores' = OpResult("cancel", FALSE, "exception", 0, "", FALSE)
                /\ UNCHANGED <<gwCancels, orders>>
           ELSE /\ gwCancels' = gwCancels \cup {order_id}
                /\ orders' = [id \in DOMAIN orders \ {order_id} |-> orders[id]]
                /\ ores' = OpResult("cancel", TRUE, "", 0, "", FALSE)
    /\ UNCHANGED <<connectVars, mktData, serverVars, pureVars,
                   clientVars, storeVars, heap, cycleVars, readVars,
                   nextOrderId, gwOrders, multiVars>>

\* cancel_order(order_id), lines 277-299.  ok = FALSE: cancelOrder raised.
cancel_order(order_id) ==
    /\ \E ok \in BOOLEAN :
        /\ ok => ib # "None"
        /\ IF ~connected
           THEN /\ ores' = OpResult("cancel", FALSE, "not_connected", 0, "", FALSE)
                /\ UNCHANGED <<gwCancels, orders>>
           ELSE IF order_id \notin DOMAIN orders
           THEN /\ ores' = OpResult("cancel", FALSE, "not_found", 0, "", FALSE)
                /\ UNCHANGED <<gwCancels, orders>>
           ELSE IF ~ok
           THEN /\ ores' = OpResult("cancel", FALSE, "exception", 0, "", FALSE)
                /\ UNCHANGED <<gwCancels, orders>>
           ELSE /\ gwCancels' = gwCancels \cup {order_id}
                /\ orders' = [orders EXCEPT ![order_id].status = CancelStatus]
                /\ ores' = OpResult("cancel", TRUE, "", 0, "", FALSE)
    /\ UNCHANGED <<connectVars, mktData, serverVars, pureVars,
                   clientVars, storeVars, heap, cycleVars, readVars,
                   nextOrderId, gwOrders, multiVars>>

\* hasattr(order_info, name): order_info is a dict, and the keys of a dict are
\* not attributes of it
HasAttr(order_info, name) == FALSE

\* what trade.orderStatus.status may hold when it is read
TradeStatuses == {"Submitted", "Filled"}

\* get_order_status(order_id), lines 301-323, when the trade of the order
\* holds the status live
get_order_status(order_id, live) ==
    /\ ores' = IF ~connected
               THEN OpResult("status", FALSE, "not_connected", 0, "", FALSE)
               ELSE IF order_id \notin DOMAIN orders
               THEN OpResult("status", FALSE, "not_found", 0, "", FALSE)
               ELSE IF HasAttr(orders[order_id], "trade")
               THEN OpResult("status", TRUE, "", 0, live, TRUE)
               ELSE OpResult("status", TRUE, "", 0,
                             orders[order_id].status, FALSE)
    /\ UNCHANGED <<connectVars, mktData, serverVars, pureVars,
                   clientVars, storeVars, heap, cycleVars, readVars, orderVars,
                   multiVars>>

\* the route hands the result to its HTTP caller (order_routes.py: jsonify);
\* the result is then gone
respond ==
    /\ mres # <<>> \/ ores # <<>>
    /\ mres' = <<>> /\ ores' = <<>>
    /\ UNCHANGED <<connectVars, mktData, serverVars, pureVars,
                   clientVars, storeVars, heap, cycleVars, readVars, orderVars,
                   mpc, legs, mreq, leg_i, combo_legs, parent_id, child_ids,
                   requests>>

\* no result is waiting to be handed over
Answered == mres = <<>> /\ ores = <<>>

\* answering touches nothing the handlers share, so a route that holds a
\* result answers before anything else happens
NextOrders ==
    \/ respond
    \/ Answered /\ connect
    \/ Answered /\ disconnect_begin
    \/ Answered /\ disconnect_teardown
    \/ Answered /\ gateway_drop
    \/ Answered /\ \E ls \in LegLists : place_multi_leg_order(ls)
    \/ Answered /\ combo_qualify_leg
    \/ Answered /\ combo_place
    \/ Answered /\ parent_qualify
    \/ Answered /\ parent_place
    \/ Answered /\ child_qualify
    \/ Answered /\ child_place
    \/ Answered /\ \E d \in OrderDetails, qualified \in BOOLEAN, placed \in BOOLEAN :
                       place_single_order(d, qualified, placed)
    \/ Answered /\ \E order_id \in OrderIds : cancel_order(order_id)
    \/ Answered /\ \E order_id \in OrderIds, live \in TradeStatuses :
                       get_order_status(order_id, live)

SpecOrders == Init /\ [][NextOrders]_vars

(***************************************************************************)
(* The refresh engine on its own: connect, disconnect and the update       *)
(* thread, without readers of the snapshot.                                *)
(***************************************************************************)
\* a step of the IBKRUpdateThread other than its being stopped
update_thread_step ==
    \/ update_loop_async_tasks
    \/ update_loop_sleep
    \/ update_spy_price_request
    \/ \E t \in PriceTickers : update_spy_price_store(t)
    \/ update_options_chain_start
    \/ update_options_chain_params
    \/ update_options_chain_clear_lock
    \/ update_options_chain_clear
    \/ update_options_chain_qualified
    \/ update_options_chain_request
    \/ update_options_chain_build
    \/ update_options_chain_swap_lock
    \/ update_options_chain_swap

NextLoop ==
    \/ connect
    \/ disconnect_begin
    \/ disconnect_teardown
    \/ gateway_drop
    \/ run_update_loop_stopped
    \/ update_loop_async_tasks
    \/ update_loop_sleep
    \/ update_spy_price_request
    \/ \E t \in PriceTickers : update_spy_price_store(t)
    \/ update_options_chain_start
    \/ update_options_chain_params
    \/ update_options_chain_clear_lock
    \/ update_options_chain_clear
    \/ update_options_chain_qualified
    \/ update_options_chain_request
    \/ update_options_chain_build
    \/ update_options_chain_swap_lock
    \/ update_options_chain_swap

\* Scheduling: the update thread is a thread of its own and every call it
\* awaits returns or raises, so it keeps stepping; the join of disconnect()
\* has a timeout, so disconnect() goes on; a loop.stop handed to the running
\* event loop is carried out at one of the awaits that follow.
FairLoop ==
    /\ Init /\ [][NextLoop]_vars
    /\ WF_vars(update_thread_step)
    /\ WF_vars(disconnect_teardown)
    /\ SF_vars(run_update_loop_stopped)

(***************************************************************************)
(* connect() called by two handlers at a time, next to disconnect() and    *)
(* the update thread's start and end.                                      *)
(***************************************************************************)
NextConnect ==
    \/ \E h \in Callers : connect_check(h)
    \/ \E h \in Callers : connect_attempt(h)
    \/ \E h \in Callers : connect_test(h)
    \/ \E h \in Callers : connect_start(h)
    \/ orphan_ends
    \/ disconnect_begin
    \/ disconnect_teardown
    \/ gateway_drop
    \/ run_update_loop_stopped
    \/ update_loop_async_tasks
    \/ update_spy_price_request

SpecConnect == Init /\ [][NextConnect]_vars

(***************************************************************************)
(* The refresh engine next to the OrderManager: single orders are placed   *)
(* and cancelled while the engine is started and stopped.                  *)
(***************************************************************************)
NextEngine ==
    \/ respond
    \/ Answered /\ connect
    \/ Answered /\ disconnect_begin
    \/ Answered /\ disconnect_teardown
    \/ Answered /\ gateway_drop
    \/ Answered /\ run_update_loop_stopped
    \/ Answered /\ update_loop_async_tasks
    \/ Answered /\ update_loop_sleep
    \/ Answered /\ update_spy_price_request
    \/ Answered /\ \E t \in PriceTickers : update_spy_price_store(t)
    \/ Answered /\ update_options_chain_start
    \/ Answered /\ update_options_chain_params
    \/ Answered /\ update_options_chain_clear_lock
    \/ Answered /\ update_options_chain_clear
    \/ Answered /\ update_options_chain_qualified
    \/ Answered /\ update_options_chain_request
    \/ Answered /\ update_options_chain_build
    \/ Answered /\ update_options_chain_swap_lock
    \/ Answered /\ update_options_chain_swap
    \/ Answered /\ \E d \in OrderDetails, qualified \in BOOLEAN, placed \in BOOLEAN :
                       place_single_order(d, qualified, placed)
    \/ Answered /\ \E order_id \in OrderIds : cancel_order(order_id)

SpecEngine == Init /\ [][NextEngine]_vars

(***************************************************************************)
(* server.py: the Socket.IO subscribers and the task that emits            *)
(* options_update to them, next to /api/connect and /api/disconnect.       *)
(***************************************************************************)
\* socketio.emit('options_update', ...)
Emit == emits' = 1 - emits

\* handle_connect, lines 101-116: start the emitter task unless the flag says
\* one is running, then emit the initial data if there is a price and a quote
handle_connect ==
    /\ subscribers < MaxSubscribers
    /\ subscribers' = subscribers + 1
    /\ IF ~socket_emitter_thread_running
       THEN /\ emitter_tasks < MaxTasks
            /\ socket_emitter_thread_running' = TRUE
            /\ emitter_tasks' = emitter_tasks + 1
       ELSE UNCHANGED <<socket_emitter_thread_running, emitter_tasks>>
    /\ IF connected /\ running /\ spy_price > 0 /\ heap[options_data] # EmptyMap
       THEN Emit
       ELSE UNCHANGED emits
    /\ UNCHANGED <<ores, connectVars, mktData, pureVars, clientVars, storeVars, heap, cycleVars,
                   readVars, orderVars, multiVars>>

\* handle_disconnect, lines 119-128: the emitter task is left running
handle_disconnect ==
    /\ subscribers > 0
    /\ subscribers' = subscribers - 1
    /\ UNCHANGED <<ores, connectVars, mktData, socket_emitter_thread_running, emitter_tasks, emits,
                   pureVars, clientVars, storeVars, heap, cycleVars, readVars,
                   orderVars, multiVars>>

\* one pass of the loop of options_data_emitter_task, lines 34-99: leave the
\* loop when the flag is cleared; else emit the payload of get_options_data
\* if the client is connected and running, and sleep
options_data_emitter_task ==
    /\ emitter_tasks > 0
    /\ IF ~socket_emitter_thread_running
       THEN /\ emitter_tasks' = emitter_tasks - 1
            /\ UNCHANGED emits
       ELSE /\ IF connected /\ running THEN Emit ELSE UNCHANGED emits
            /\ UNCHANGED emitter_tasks
    /\ UNCHANGED <<ores, connectVars, mktData, socket_emitter_thread_running, subscribers,
                   pureVars, clientVars, storeVars, heap, cycleVars, readVars,
                   orderVars, multiVars>>

NextServer ==
    \/ connect
    \/ disconnect_begin
    \/ disconnect_teardown
    \/ gateway_drop
    \/ handle_connect
    \/ handle_disconnect
    \/ options_data_emitter_task

\* Scheduling: an emitter task is a thread of its own that wakes up after
\* every sleep.
FairServer ==
    /\ Init /\ [][NextServer]_vars
    /\ WF_vars(options_data_emitter_task)

(***************************************************************************)
(* Properties of the snapshot store and its readers.                       *)
(***************************************************************************)
Returned == {ret[i] : i \in 1..Len(ret)}

\* C1: whenever the stored price is <= 0 the stored options map is empty, and
\* every payload get_options_data returns with a price <= 0 has no options.
C1_NoPriceNoQuotes ==
    /\ spy_price <= 0 => heap[options_data] = EmptyMap
    /\ \A p \in Returned : p.spy_price <= 0 => p.options = EmptyMap

\* a cycle ran its chain step and a reader got the stored snapshot, all while
\* no valid price had arrived
C1_Witness ==
    /\ cycle >= 1 /\ pc = "sleep" /\ connected /\ spy_price <= 0
    /\ \E p \in Returned : ~p.error /\ p.spy_price <= 0

\* C2: no returned payload holds quotes published by one cycle together with
\* a price written in a later cycle.
C2_PriceNotFromLaterCycle ==
    \A p \in Returned : \A k \in DOMAIN p.options :
        p.priceCycle <= p.options[k].cyc

\* C3: the options map of a returned payload is empty or is the complete map
\* one cycle built: all entries from the same cycle, and as many entries as
\* that cycle had tickers.
C3_EmptyOrCompleteMap ==
    \A p \in Returned :
        \/ p.options = EmptyMap
        \/ \E c \in 1..MaxCycles : \A k \in DOMAIN p.options :
              /\ p.options[k].cyc = c
              /\ p.options[k].of = Cardinality(DOMAIN p.options)

\* a reader got a two-entry map of the first cycle while the second cycle had
\* built its own map and was about to swap it in
C3_Witness ==
    /\ cycle = 2 /\ pc = "o_swap"
    /\ \E p \in Returned :
          /\ Cardinality(DOMAIN p.options) = 2
          /\ \A k \in DOMAIN p.options : p.options[k].cyc = 1

\* C4: the update thread never holds options_data_lock while it is suspended
\* in a gateway call or a sleep, so a get_options_data call waiting for the
\* lock at such a moment can take it.
C4_NoLockAcrossAwait ==
    (alive /\ pc \in AwaitPoints) =>
        /\ lock # "update"
        /\ \A r \in Readers :
              (rpc[r] = "acquire" /\ lock \notin Readers) =>
                  ENABLED get_options_data_copy(r)

\* a reader waits for the lock while the update thread sleeps for population
C4_Witness ==
    /\ alive /\ pc = "o_populate" /\ tickers_data # <<>>
    /\ \E r \in Readers : rpc[r] = "acquire"

\* C5: the dict of a returned payload keeps the content it was returned with,
\* whatever the update thread does afterwards.
C5_PayloadIsACopy ==
    \A p \in Returned : p.ref # NoRef => heap[p.ref] = p.options

\* a payload with quotes was returned and the stored dict was cleared since
C5_Witness ==
    /\ pc = "sleep" /\ heap[options_data] = EmptyMap
    /\ \E p \in Returned : p.options # EmptyMap /\ p.pubs = pubs

\* the payload as the caller sees it: the history fields left out
Visible(p) ==
    [error |-> p.error, spy_price |-> p.spy_price,
     options |-> [k \in DOMAIN p.options |->
                    [strike |-> p.options[k].strike, right |-> p.options[k].right,
                     bid |-> p.options[k].bid, ask |-> p.options[k].ask]]]

\* C6: a get_options_data call that returns the stored snapshot, with no
\* assignment to the stored map since the previous call returned it, gives the
\* payload the previous call gave.
C6_SameWithoutPublish ==
    [][\A p \in Returned : \A q \in {ret'[i] : i \in 1..Len(ret')} :
          (ret' # ret /\ ~p.error /\ ~q.error /\ q.pubs = p.pubs)
              => Visible(q) = Visible(p)]_vars

\* C7: a get_options_data call made while the gateway is not connected (no
\* handle, or isConnected() false) returns the error payload; it never goes on
\* to read the stored snapshot.
C7_ErrorWhenGatewayDown ==
    [][\A r \in Readers :
          (NotConnected /\ rpc[r] = "idle") => rpc'[r] = "idle"]_vars

(***************************************************************************)
(* Properties of place_multi_leg_order.                                    *)
(***************************************************************************)
Results == {mres[i] : i \in 1..Len(mres)}

\* the orders the gateway received for request r, in the order received
RequestOrders(r) == SelectSeq(gwOrders, LAMBDA o : o.req = r)

\* C8: when a bracket request returns because a child leg failed to qualify,
\* it returns failure, cancelOrder was called for its parent, and the ledger
\* holds no SUBMITTED record of that request.
C8_UnqualifiedChildLeavesNothingSubmitted ==
    \A res \in Results :
        res.reason = "invalid_child" =>
            /\ ~res.success
            /\ \E i \in 1..Len(gwOrders) :
                  /\ gwOrders[i].req = res.req /\ gwOrders[i].leg = 1
                  /\ gwOrders[i].orderId \in gwCancels
            /\ \A id \in DOMAIN orders :
                  orders[id].req = res.req => orders[id].status # "SUBMITTED"

\* C9: when place_multi_leg_order returns failure, cancelOrder was called for
\* every order the request had placed.
C9_FailureCancelsEveryPlacedOrder ==
    \A res \in Results :
        ~res.success =>
            \A i \in 1..Len(gwOrders) :
                gwOrders[i].req = res.req => gwOrders[i].orderId \in gwCancels

\* C10: a successful bracket of n legs reached the gateway as n orders in leg
\* order, the first with no parent and transmit = false, every other with
\* parentId the first order's id, and transmit = true on the last one alone.
C10_BracketOrdersLinkedLastTransmits ==
    \A res \in Results :
        (res.success /\ res.path = "bracket") =>
            LET os == RequestOrders(res.req)
            IN /\ Len(os) = res.n
               /\ \A i \in 1..Len(os) : os[i].leg = i
               /\ os[1].parentId = 0
               /\ \A i \in 2..Len(os) : os[i].parentId = os[1].orderId
               /\ \A i \in 1..Len(os) : os[i].transmit <=> (i = res.n)
               /\ res.order_id = os[1].orderId

\* a bracket of three legs was placed with success
C10_Witness ==
    \E res \in Results : res.success /\ res.path = "bracket" /\ res.n = 3

\* the ledger records made for request r
RequestRecords(r) == {id \in DOMAIN orders : orders[id].req = r}

\* the request behind res reached the gateway as one order, a combo with one
\* combo leg per request leg in leg order, and has one ledger record, that
\* order's, SUBMITTED and with no children
OneComboOrder(res) ==
    LET os == RequestOrders(res.req)
    IN /\ Len(os) = 1
       /\ os[1].comboLegs = [i \in 1..res.n |-> i]
       /\ os[1].parentId = 0
       /\ RequestRecords(res.req) = {os[1].orderId}
       /\ orders[os[1].orderId].status = "SUBMITTED"
       /\ orders[os[1].orderId].children = <<>>
       /\ res.order_id = os[1].orderId

\* C11 as stated: a request whose legs share one symbol and one expiry and all
\* qualify places exactly one combo order and adds exactly one ledger record.
C11_UniformLegsPlaceOneCombo ==
    \A res \in Results :
        (res.kinds = 1 /\ res.reason \notin {"not_connected", "invalid_contract"})
            => OneComboOrder(res)

\* C11, amended: such a request, when placeOrder returns, has placed exactly
\* one combo order and added exactly one ledger record; when placeOrder
\* raises, it fails and has placed and recorded nothing.
C11_UniformLegsPlacedAsOneCombo ==
    \A res \in Results :
        res.kinds = 1 =>
            /\ res.success => OneComboOrder(res)
            /\ res.reason = "exception" =>
                  /\ ~res.success
                  /\ RequestOrders(res.req) = <<>>
                  /\ RequestRecords(res.req) = {}

\* three legs of one symbol and expiry were placed with success
C11_Witness ==
    \E res \in Results : res.success /\ res.kinds = 1 /\ res.n = 3

\* C12: a combo request that returns because a leg failed to qualify returns
\* failure, has sent no order to the gateway and has no ledger record.
C12_UnqualifiedComboLegPlacesNothing ==
    \A res \in Results :
        (res.path = "combo" /\ res.reason = "invalid_contract") =>
            /\ ~res.success
            /\ RequestOrders(res.req) = <<>>
            /\ RequestRecords(res.req) = {}

\* the third leg of a combo failed to qualify after two had qualified
C12_Witness ==
    \E res \in Results :
        /\ res.path = "combo" /\ res.reason = "invalid_contract"
        /\ res.n = 3 /\ res.at = 3

\* C13: after a successful bracket of n legs the parent record's children are
\* the returned child_ids, n - 1 ids in leg order, and each of them has a
\* ledger record of its own whose parent is the parent's order id.
C13_ParentListsItsChildren ==
    \A res \in Results :
        (res.success /\ res.path = "bracket") =>
            /\ res.order_id \in DOMAIN orders
            /\ orders[res.order_id].leg = 1
            /\ orders[res.order_id].children = res.child_ids
            /\ Len(res.child_ids) = res.n - 1
            /\ \A i \in 1..Len(res.child_ids) :
                  /\ res.child_ids[i] \in DOMAIN orders
                  /\ res.child_ids[i] # res.order_id
                  /\ orders[res.child_ids[i]].parent = res.order_id
                  /\ orders[res.child_ids[i]].req = res.req
                  /\ orders[res.child_ids[i]].leg = i + 1

\* a bracket with two children returned with success
C13_Witness ==
    \E res \in Results :
        /\ res.success /\ res.path = "bracket"
        /\ Len(res.child_ids) = 2
        /\ Len(orders[res.order_id].children) = 2

(***************************************************************************)
(* Properties of place_single_order, cancel_order and get_order_status.    *)
(***************************************************************************)
OpResults == {ores[i] : i \in 1..Len(ores)}

\* this step placed one order, with id, and added the SUBMITTED record id
PlacedAndRecorded(id) ==
    /\ Len(gwOrders') = Len(gwOrders) + 1
    /\ SubSeq(gwOrders', 1, Len(gwOrders)) = gwOrders
    /\ gwOrders'[Len(gwOrders')].orderId = id
    /\ id \notin DOMAIN orders
    /\ DOMAIN orders' = DOMAIN orders \cup {id}
    /\ orders'[id].status = "SUBMITTED"
    /\ \A other \in DOMAIN orders : orders'[other] = orders[other]

\* this step placed nothing and left the ledger alone
NothingPlaced == gwOrders' = gwOrders /\ orders' = orders

\* C14 as stated: place_single_order succeeds exactly when the client is
\* connected, the contract qualifies and the type is MARKET or LIMIT; success
\* places one order and adds its SUBMITTED record, failure changes nothing.
C14_SingleSucceedsIffValid ==
    [][\A d \in OrderDetails, qualified \in BOOLEAN, placed \in BOOLEAN :
          place_single_order(d, qualified, placed) =>
              /\ ores'[1].success <=>
                    (connected /\ qualified /\ d.order_type \in {"MARKET", "LIMIT"})
              /\ ores'[1].success => PlacedAndRecorded(ores'[1].order_id)
              /\ ~ores'[1].success => NothingPlaced]_vars

\* C14, amended: it succeeds exactly when, besides, a LIMIT order carries its
\* limit_price and placeOrder returns without raising.
C14_SingleSucceedsIffValidAndPlaced ==
    [][\A d \in OrderDetails, qualified \in BOOLEAN, placed \in BOOLEAN :
          place_single_order(d, qualified, placed) =>
              /\ ores'[1].success <=>
                    /\ connected /\ qualified
                    /\ d.order_type \in {"MARKET", "LIMIT"}
                    /\ d.order_type = "LIMIT" => d.limit_price
                    /\ placed
              /\ ores'[1].success => PlacedAndRecorded(ores'[1].order_id)
              /\ ~ores'[1].success => NothingPlaced]_vars

\* a single order was placed and its record is in the ledger
C14_Witness ==
    \E res \in OpResults :
        /\ res.op = "place" /\ res.success
        /\ res.order_id \in DOMAIN orders
        /\ orders[res.order_id].status = "SUBMITTED"

\* C15 as stated: cancel_order on an id the ledger does not hold returns the
\* order-not-found failure, sends no cancel to the gateway and leaves the
\* ledger as it is.
C15_UnknownIdNotFound ==
    [][\A order_id \in OrderIds :
          (cancel_order(order_id) /\ order_id \notin DOMAIN orders) =>
              /\ ~ores'[1].success /\ ores'[1].reason = "not_found"
              /\ gwCancels' = gwCancels
              /\ orders' = orders]_vars

\* C15, amended: it fails, with order-not-found while the client is connected
\* and with not-connected otherwise, sends no cancel and leaves the ledger.
C15_UnknownIdFailsWithoutEffect ==
    [][\A order_id \in OrderIds :
          (cancel_order(order_id) /\ order_id \notin DOMAIN orders) =>
              /\ ~ores'[1].success
              /\ ores'[1].reason =
                    IF connected THEN "not_found" ELSE "not_connected"
              /\ gwCancels' = gwCancels
              /\ orders' = orders]_vars

\* a cancel for an unknown id was refused while the ledger held an order
\* that no cancel had reached
C15_Witness ==
    /\ \E res \in OpResults : res.op = "cancel" /\ res.reason = "not_found"
    /\ orders # <<>>
    /\ gwCancels = {}

\* C16: cancel_order on an id the ledger holds, while connected, either sends
\* the cancel for that order, stores CANCELLING in its record in the same
\* step and leaves the other records alone, or (cancelOrder raised) fails and
\* leaves the ledger as it was.
C16_KnownIdMarkedCancelling ==
    [][\A order_id \in OrderIds :
          (cancel_order(order_id) /\ connected /\ order_id \in DOMAIN orders) =>
              \/ /\ ores'[1].success
                 /\ gwCancels' = gwCancels \cup {order_id}
                 /\ DOMAIN orders' = DOMAIN orders
                 /\ orders'[order_id].status = "CANCELLING"
                 /\ \A other \in DOMAIN orders \ {order_id} :
                       orders'[other] = orders[other]
              \/ /\ ~ores'[1].success
                 /\ gwCancels' = gwCancels
                 /\ orders' = orders]_vars

\* a cancel went through for one order of a bracket while another order of
\* the ledger is still SUBMITTED
C16_Witness ==
    /\ \E res \in OpResults : res.op = "cancel" /\ res.success
    /\ \E id \in DOMAIN orders :
          orders[id].status = "CANCELLING" /\ id \in gwCancels
    /\ \E id \in DOMAIN orders : orders[id].status = "SUBMITTED"

\* C17: get_order_status for an order in the ledger (its record holds the
\* trade handle placeOrder returned) returns the trade's live status together
\* with filled and remaining.
C17_StatusIsLiveTradeStatus ==
    [][\A order_id \in OrderIds, live \in TradeStatuses :
          (get_order_status(order_id, live) /\ connected
               /\ order_id \in DOMAIN orders) =>
              /\ ores'[1].success
              /\ ores'[1].status = live
              /\ ores'[1].detail]_vars

\* C18: get_order_status for an order in the ledger returns success, whatever
\* the connection state of the client.
C18_StatusOfKnownIdSucceeds ==
    [][\A order_id \in OrderIds, live \in TradeStatuses :
          (get_order_status(order_id, live) /\ order_id \in DOMAIN orders) =>
              ores'[1].success]_vars

\* the changes of a cached status the state machine of a record allows
StatusEdges ==
    { <<"SUBMITTED", "FILLED">>, <<"SUBMITTED", "CANCELLING">>,
      <<"CANCELLING", "CANCELLED">>, <<"SUBMITTED", "REJECTED">> }

\* C19: a record enters the ledger SUBMITTED, its cached status afterwards
\* changes only along an allowed edge, and get_order_status changes no
\* status at all.
C19_StatusFollowsEdges ==
    [][/\ \A id \in DOMAIN orders' \ DOMAIN orders :
             orders'[id].status = "SUBMITTED"
       /\ \A id \in DOMAIN orders \cap DOMAIN orders' :
             \/ orders'[id].status = orders[id].status
             \/ <<orders[id].status, orders'[id].status>> \in StatusEdges
       /\ \A order_id \in OrderIds, live \in TradeStatuses :
             get_order_status(order_id, live) => orders' = orders]_vars

\* a status query has just answered CANCELLING for a cancelled order
C19_Witness ==
    /\ \E res \in OpResults : res.op = "status" /\ res.status = "CANCELLING"
    /\ \E id \in DOMAIN orders : orders[id].status = "CANCELLING"

\* C20: no step removes an order id from the ledger.
C20_LedgerOnlyGrows ==
    [][DOMAIN orders \subseteq DOMAIN orders']_vars

\* the ledger still holds a cancelled order and another one after the client
\* was disconnected and a cancel was refused for that
C20_Witness ==
    /\ ~connected /\ ib = "None"
    /\ \E res \in OpResults : res.op = "cancel" /\ res.reason = "not_connected"
    /\ Cardinality(DOMAIN orders) >= 2
    /\ \E id \in DOMAIN orders : id \in gwCancels

(***************************************************************************)
(* Properties of stopping the refresh engine.                              *)
(***************************************************************************)
\* C21: a step of disconnect() and the step in which the update thread ends
\* call no cancelOrder and change no ledger record.
C21_StoppingLeavesOrdersAlone ==
    [][(dpc' # dpc \/ (alive /\ ~alive')) =>
           (gwCancels' = gwCancels /\ orders' = orders)]_vars

\* the engine ran a cycle and has been stopped by disconnect(), the thread is
\* gone, and the ledger still holds a SUBMITTED order
C21_Witness ==
    /\ cycle >= 1 /\ ~alive /\ ~connected /\ ~running /\ dpc = "idle"
    /\ \E id \in DOMAIN orders : orders[id].status = "SUBMITTED"
    /\ gwCancels = {}

IsNearest(all, i, price) ==
    \A j \in 1..Len(all) :
        \/ Abs(all[i] - price) < Abs(all[j] - price)
        \/ Abs(all[i] - price) = Abs(all[j] - price) /\ all[i] <= all[j]

\* sel is the slice of all from N below to N above index i, clamped
IsWindow(sel, all, i, N) ==
    LET lo == IF i - N < 1 THEN 1 ELSE i - N
        hi == IF i + N > Len(all) THEN Len(all) ELSE i + N
    IN /\ Len(sel) = hi - lo + 1
       /\ \A k \in 1..Len(sel) : sel[k] = all[lo + k - 1]

\* C23: the strikes selected are the window of N strikes on either side of
\* the strike nearest the price in the sorted list of the distinct strikes;
\* for 95..105, price 100.4 and N = 2 they are 98..102.
C23_SelectedStrikesAreWindow ==
    selected_strikes # <<>> =>
        LET all == SortedSeq(SeqRange(strike_input.strikes))
        IN /\ SeqRange(all) = SeqRange(strike_input.strikes)
           /\ \A j \in 1..(Len(all) - 1) : all[j] < all[j + 1]
           /\ \E i \in 1..Len(all) :
                 /\ IsNearest(all, i, strike_input.price)
                 /\ IsWindow(selected_strikes, all, i, strike_input.n)
           /\ (strike_input = [strikes |-> ExampleStrikes, price |-> 1004, n |-> 2])
                 => selected_strikes = <<980, 990, 1000, 1010, 1020>>

\* the strikes 95..105 with price 100.4 and N = 2 have been selected from
C23_Witness ==
    /\ strike_input = [strikes |-> ExampleStrikes, price |-> 1004, n |-> 2]
    /\ selected_strikes = <<980, 990, 1000, 1010, 1020>>

Unavailable(v) == v = Missing \/ v = NaN \/ v = Num(-1)

\* C24: in a quote entry bid and ask are each 'N/A' when the ticker's value
\* is missing, NaN or -1 and the ticker's value otherwise; 0.0 stays 0.0.
C24_QuoteNormalisedPerField ==
    quote # <<>> =>
        /\ IF Unavailable(ticker_input.bid)
           THEN quote[1].bid = NA ELSE quote[1].bid = ticker_input.bid
        /\ IF Unavailable(ticker_input.ask)
           THEN quote[1].ask = NA ELSE quote[1].ask = ticker_input.ask
        /\ ticker_input.bid = Num(0) => quote[1].bid = Num(0)
        /\ ticker_input.ask = Num(0) => quote[1].ask = Num(0)

\* an entry built for a ticker with bid 0.0 and no ask
C24_Witness ==
    /\ quote # <<>>
    /\ ticker_input.bid = Num(0) /\ ticker_input.ask = NaN
    /\ quote[1].bid = Num(0) /\ quote[1].ask = NA

(***************************************************************************)
(* Properties of the push channel.                                         *)
(***************************************************************************)
\* C25: if from some point on the client stays connected and running and a
\* subscriber stays connected, options_update is emitted again and again.
C25_UpdatesKeepComing ==
    <>[](connected /\ running /\ subscribers > 0) => []<><<Emit>>_emits

(***************************************************************************)
(* Properties of the refresh cycle.                                        *)
(***************************************************************************)
\* C26: the loop's finding the gateway not connected once does not end the
\* update thread.  (The loop never goes on after such a finding, so every
\* finding is the first of its run.)
C26_OneLostCheckGoesOn ==
    [][(alive /\ pc = "loop" /\ running /\ NotConnected) => alive']_vars

\* the price the price step is to store for a ticker: the first positive one
\* of marketPrice, last and close, else the price stored before
FirstPositive(old, t) ==
    IF Positive(t.mp) THEN t.mp.val
    ELSE IF Positive(t.last) THEN t.last.val
    ELSE IF Positive(t.close) THEN t.close.val
    ELSE old

\* C27: the price step stores the first positive one of marketPrice, last and
\* close, and leaves the price alone when there is none.
C27_PriceFallsBack ==
    [][\A t \in PriceTickers :
          update_spy_price_store(t) => spy_price' = FirstPositive(spy_price, t)]_vars

\* C28: in a cycle that finds today's expiry missing, no option contract is
\* built, qualified or requested, the price is left alone, and the stored
\* map is empty when the cycle ends.
C28_NoExpiryClearsQuotesOnly ==
    [][/\ (pc = "o_chain" /\ pc' = "o_clear") =>
              /\ option_contracts' = <<>> /\ qualified_options' = <<>>
              /\ tickers_data' = <<>> /\ mktData' \subseteq mktData
              /\ spy_price' = spy_price
       /\ pc \in {"o_clear", "o_clearing"} =>
              /\ option_contracts' = <<>> /\ qualified_options' = <<>>
              /\ tickers_data' = <<>> /\ mktData' \subseteq mktData
              /\ spy_price' = spy_price
              /\ pc' \in {pc, "o_clearing", "sleep"}
       /\ (pc = "o_clearing" /\ pc' = "sleep") =>
              heap'[options_data'] = EmptyMap]_vars

\* the no-expiry cycle has ended with the stored map empty, and a reader holds
\* quotes it was given after the last publication: they were cleared in place
C28_Witness ==
    /\ alive /\ pc = "sleep" /\ option_contracts = <<>> /\ tickers_data = <<>>
    /\ heap[options_data] = EmptyMap
    /\ \E p \in Returned : ~p.error /\ p.pubs = pubs /\ p.options # EmptyMap

\* C29: when a cycle has reached its sleep, no market data line is open.
C29_NoLineOpenAfterCycle ==
    (alive /\ pc = "sleep") => mktData = {}

\* positions of the update coroutine inside a cycle
CyclePositions ==
    {"p_qualify", "p_ticker", "o_start", "o_chain", "o_clear", "o_clearing",
     "o_qualopts", "o_reqmkt", "o_populate", "o_swap", "o_swapping"}

\* C30: the update thread ends only in the loop's own test (running cleared
\* or gateway not connected) or by the loop.stop of disconnect(); whatever
\* happens inside a cycle, the cycle is left for the sleep, the sleep for the
\* loop's test, and the test starts the next cycle while the client runs and
\* the gateway is connected; a lost connection ends the thread (unless the
\* connection is made anew first).
C30_OnlyConnectionLossEndsLoop ==
    /\ [][/\ (alive /\ ~alive') =>
                 (loopStop \/ (pc = "loop" /\ (~running \/ NotConnected)))
          /\ (alive' /\ pc \in CyclePositions /\ pc' \notin CyclePositions) =>
                 pc' = "sleep"
          /\ (alive' /\ pc = "sleep" /\ pc' # pc) => pc' = "loop"
          /\ (pc = "loop" /\ alive /\ running /\ ~NotConnected /\ pc' # pc) =>
                 (pc' = "p_qualify" /\ cycle' = cycle + 1)]_vars
    /\ (alive /\ NotConnected) ~> (~alive \/ ~NotConnected)

\* a request for market data raised in the first cycle with the gateway
\* connected (its line was left open), and the second cycle is under way
C30_Witness ==
    /\ alive /\ cycle = 2 /\ pc = "p_ticker" /\ ~NotConnected
    /\ mktData \ {spy_stock} # {}

(***************************************************************************)
(* Properties of connect() and of the update thread's life.                *)
(***************************************************************************)
\* the update threads alive
UpdateThreads == (IF alive THEN 1 ELSE 0) + orphans

\* C36: at most one update thread is alive.
C36_OneUpdateThread ==
    UpdateThreads <= 1

(***************************************************************************)
(* Properties of a refresh cycle that fails.                               *)
(***************************************************************************)
\* where the chain step stands while a gateway call is out (qualifyContracts
\* of the stock, reqSecDefOptParams, qualifyContracts of the options,
\* reqMktData)
GatewayCallPositions == {"o_start", "o_chain", "o_qualopts", "o_reqmkt"}

\* where the chain step stands inside one of its two with blocks
WritePositions == {"o_clearing", "o_swapping"}

\* C31: the stored quotes map and its content change only inside the with
\* blocks of the chain step, so a cycle that a raising gateway call ends before
\* the swap leaves the map as it was when the cycle began; the raise leaves
\* the lock free, so that get_options_data goes on to return a payload.
C31_FailedCycleKeepsQuotes ==
    [][/\ (alive /\ pc \notin WritePositions)
            => /\ options_data' = options_data
               /\ heap'[options_data] = heap[options_data]
       /\ (alive /\ pc \in GatewayCallPositions /\ pc' = "sleep")
            => /\ lock' # "update"
               /\ options_data' # cycle
               /\ \A r \in Readers : rpc[r] = "idle" => ENABLED get_options_data_check(r)]_vars

\* the second cycle ended on a raising reqMktData, the quotes of the first are
\* still stored, and a payload with them has been returned
C31_Witness ==
    /\ alive /\ pc = "sleep" /\ cycle = 2 /\ options_data = 1
    /\ mktData \ {spy_stock} # {}
    /\ heap[options_data] # EmptyMap
    /\ \E p \in Returned :
          ~p.error /\ p.priceCycle = 2 /\ p.options = heap[options_data]

\* the update thread found the gateway not connected at the test of its loop
\* (lines 125-128) and has ended; disconnect() has not been called since
LoopEndedOnDisconnection ==
    ~alive /\ loop = "closed" /\ running /\ ib = "IB" /\ ~gwConnected

\* C32: once the refresh loop has ended on a detected disconnection, a call of
\* connect() connects again and starts a new update thread.
C32_ConnectRestartsLoop ==
    LoopEndedOnDisconnection => ENABLED (connect /\ alive')

(***************************************************************************)
(* Properties of handlers of the OrderManager running side by side.        *)
(***************************************************************************)
\* the orders a step hands to placeOrder
PlacedNow == {gwOrders'[i] : i \in (Len(gwOrders) + 1)..Len(gwOrders')}

\* C33: no child order is placed under a parent whose ledger status is
\* CANCELLING already: cancel_order on a bracket parent does not take effect
\* between the placing of the parent and the end of the child placement.
C33_NoChildUnderCancelledParent ==
    [][\A o \in PlacedNow :
          o.parentId # 0 => orders[o.parentId].status # CancelStatus]_vars

(***************************************************************************)
(* Properties of what a snapshot holds.                                    *)
(***************************************************************************)
\* the strikes of a list of contracts built call and put per strike
ContractStrikes(contracts) ==
    [k \in 1..(Len(contracts) \div 2) |-> contracts[2 * k - 1][1]]

GatewayAndLedgerKept ==
    /\ gwOrders' = gwOrders /\ gwCancels' = gwCancels
    /\ nextOrderId' = nextOrderId /\ orders' = orders

\* C35: while the connected flag of the client is false, a call of
\* place_single_order, of place_multi_leg_order or of cancel_order returns a
\* failure saying not connected, hands nothing to the gateway, starts no
\* qualification and leaves the ledger as it is.
C35_NotConnectedRefusesAll ==
    [][~connected =>
         /\ \A q \in {ores'[i] : i \in 1..Len(ores')} :
               (ores = <<>> /\ q.op \in {"place", "cancel"})
                   => /\ ~q.success /\ q.reason = "not_connected"
                      /\ GatewayAndLedgerKept
                      /\ mpc' = mpc /\ mres' = mres
         /\ (mpc = "idle" /\ requests' # requests /\ ores' = ores)
               => /\ mres' # <<>>
                  /\ \A res \in {mres'[i] : i \in 1..Len(mres')} :
                        ~res.success /\ res.reason = "not_connected"
                  /\ mpc' = "idle" /\ legs' = legs
                  /\ GatewayAndLedgerKept]_vars

\* after a disconnect(), with an order in the ledger, a cancel_order has been
\* refused as not connected
C35_Witness ==
    /\ ~connected /\ ib = "None" /\ loop # "None"
    /\ DOMAIN orders # {}
    /\ \E q \in OpResults : q.op = "cancel" /\ q.reason = "not_connected"
====
